---- MODULE Spec2Model ----
(***************************************************************************)
(* TV Delivery Optimizer (app.py): a Streamlit script that, on every       *)
(* submit of the depot-supply form, compares total supply with total store *)
(* capacity, builds a transportation linear program and hands it to        *)
(* scipy.optimize.linprog, then shows either the rounded shipment plan and *)
(* the objective value, or an error.                                       *)
(*                                                                         *)
(* Quantities are whole TVs.  The real-valued vector returned by linprog   *)
(* is kept in fixed point: an entry n stands for n / Den TVs.              *)
(***************************************************************************)
EXTENDS Integers, Sequences, FiniteSets, TLC

\* ------------------------------------------------------------------ bounds

\* Each depot supply entered in the form is one of 0, Unit, ..., MaxSupplyUnits * Unit.
MaxSupplyUnits == 3

\* Resolution of the fixed-point representation of linprog's float vector.
Den == 2

\* ------------------------------------------------- module-level constants

Depots == 0..2

Stores == 0..2

\* Indices of the flattened decision vector (9 variables).
Vars == 0..8

store_caps == (0 :> 2000) @@ (1 :> 3000) @@ (2 :> 2000)

distances ==
  (0 :> ((0 :> 22) @@ (1 :> 33) @@ (2 :> 40))) @@
  (1 :> ((0 :> 27) @@ (1 :> 30) @@ (2 :> 22))) @@
  (2 :> ((0 :> 36) @@ (1 :> 20) @@ (2 :> 25)))

cost_per_mile == 5

\* ----------------------------------------------------------------- helpers

RECURSIVE SumOver(_, _)
\* sum(f[k] for k in S)
SumOver(f, S) ==
  IF S = {} THEN 0
  ELSE LET k == CHOOSE e \in S : TRUE IN f[k] + SumOver(f, S \ {k})

\* Dot product of two vectors over Vars (a row of a constraint matrix times x).
Dot(row, x) == SumOver([k \in Vars |-> row[k] * x[k]], Vars)

RECURSIVE Gcd(_, _)
Gcd(a, b) == IF b = 0 THEN a ELSE Gcd(b, a % b)

\* The grid step of the inputs explored: the greatest common divisor of the
\* store capacities (1000).  With supplies and capacities all multiples of
\* Unit, every vertex of the transportation polytope is a multiple of Unit.
Unit == Gcd(Gcd(store_caps[0], store_caps[1]), store_caps[2])

SupplyValues == {u * Unit : u \in 0..MaxSupplyUnits}

\* The values the three number_input widgets can hold (min_value=0).
SupplyVectors == [Depots -> SupplyValues]

\* ---------------------------------------------- model builder (lines 127-140)

\* Variant of c: the distance matrix flattened column by column.
c_ColumnMajor == [k \in Vars |-> distances[k % 3][k \div 3] * cost_per_mile]

\* c = (distances * cost_per_mile).flatten(): row-major, entry 3*i + j is (depot i, store j).
c == [k \in Vars |-> distances[k \div 3][k % 3] * cost_per_mile]

\* Variant of A_store: the store rows indexed store-major (3*j + i).
A_store_StoreMajor ==
  [j \in Stores |-> [k \in Vars |-> IF \E i \in Depots : k = 3 * j + i THEN 1 ELSE 0]]

\* A_store[j, 3*i + j] = 1 for every depot i: row j sums what store j receives.
A_store ==
  [j \in Stores |-> [k \in Vars |-> IF \E i \in Depots : k = 3 * i + j THEN 1 ELSE 0]]

b_store == store_caps

\* Variant of A_depot: each depot row covers the next depot's block of variables.
A_depot_Shifted ==
  [i \in Depots |->
     [k \in Vars |-> IF 3 * ((i + 1) % 3) <= k /\ k < 3 * ((i + 1) % 3) + 3 THEN 1 ELSE 0]]

\* A_depot[i, 3*i : 3*i+3] = 1: row i sums what depot i ships.
A_depot ==
  [i \in Depots |-> [k \in Vars |-> IF 3 * i <= k /\ k < 3 * i + 3 THEN 1 ELSE 0]]

\* bounds = [(0, None)] * 9: the lower bound of every variable; there is no upper bound.
LowerBound == [k \in Vars |-> 0]

\* ------------------------------------------- scipy.optimize.linprog (contract)

\* Grid values a variable bounded by an equality row of right-hand side b can take.
GridUpTo(b) == {u * Unit : u \in 0..(b \div Unit)}

Support(row) == {k \in Vars : row[k] # 0}

\* The assignments to the variables of one equality row that satisfy that row.
RowSolutions(row, b) ==
  {f \in [Support(row) -> GridUpTo(b)] :
     SumOver([k \in Support(row) |-> row[k] * f[k]], Support(row)) = b}

\* Vectors put together from one solution per equality row.  A variable that
\* no equality row mentions sits at its lower bound (the objective is non-negative).
EqCandidates(A_eq, b_eq) ==
  {[k \in Vars |->
      IF k \in DOMAIN f0 THEN f0[k]
      ELSE IF k \in DOMAIN f1 THEN f1[k]
      ELSE IF k \in DOMAIN f2 THEN f2[k]
      ELSE LowerBound[k]] :
     f0 \in RowSolutions(A_eq[0], b_eq[0]),
     f1 \in RowSolutions(A_eq[1], b_eq[1]),
     f2 \in RowSolutions(A_eq[2], b_eq[2])}

\* x satisfies A_ub x <= b_ub, A_eq x = b_eq and the bounds.
Feasible(x, A_ub, b_ub, A_eq, b_eq) ==
  /\ \A k \in Vars : x[k] >= LowerBound[k]
  /\ \A r \in DOMAIN A_eq : Dot(A_eq[r], x) = b_eq[r]
  /\ \A r \in DOMAIN A_ub : Dot(A_ub[r], x) <= b_ub[r]

FeasibleSet(A_ub, b_ub, A_eq, b_eq) ==
  {x \in EqCandidates(A_eq, b_eq) : Feasible(x, A_ub, b_ub, A_eq, b_eq)}

\* A direction along which the feasible region is unbounded and the objective falls:
\* d >= 0, d # 0, A_eq d = 0, A_ub d <= 0, cc . d < 0.  The conditions are homogeneous
\* with 0/1 constraint coefficients, so 0/1 directions decide the first four.
DescentRay(cc, A_ub, A_eq) ==
  \E d \in [Vars -> {0, 1}] :
    /\ \E k \in Vars : d[k] = 1
    /\ \A r \in DOMAIN A_eq : Dot(A_eq[r], d) = 0
    /\ \A r \in DOMAIN A_ub : Dot(A_ub[r], d) <= 0
    /\ Dot(cc, d) < 0

SetMin(S) == CHOOSE m \in S : \A n \in S : m <= n

\* The feasible vectors of least objective value.
ArgMin(cc, F) ==
  LET val == [x \in F |-> Dot(cc, x)]
      best == SetMin({val[x] : x \in F})
  IN {x \in F : val[x] = best}

\* res.message for each res.status (scipy's OptimizeResult).
Message(status) ==
  CASE status = 0 -> "Optimization terminated successfully."
    [] status = 1 -> "Iteration limit reached."
    [] status = 2 -> "The problem is infeasible."
    [] status = 3 -> "The problem is unbounded."
    [] OTHER -> "Numerical difficulties encountered."

\* res of a run that found the optimum x (whole TVs): x and fun are floats.
SuccessResult(cc, x) ==
  [status |-> 0, success |-> TRUE, message |-> Message(0),
   x |-> [k \in Vars |-> Den * x[k]],
   fun |-> Dot(cc, [k \in Vars |-> Den * x[k]])]

\* res of a run that ended with status 1..4: success is False, x and fun are None.
FailureResult(status) ==
  [status |-> status, success |-> FALSE, message |-> Message(status)]

\* linprog(c, A_ub, b_ub, A_eq, b_eq, bounds, method="highs"): the results the
\* solver may return.  Status 2 when no vector satisfies the constraints, status 3
\* when the objective has no minimum, otherwise status 0 with an optimal vector.
linprog(cc, A_ub, b_ub, A_eq, b_eq) ==
  LET F == FeasibleSet(A_ub, b_ub, A_eq, b_eq) IN
  IF F = {} THEN {FailureResult(2)}
  ELSE IF DescentRay(cc, A_ub, A_eq) THEN {FailureResult(3)}
  ELSE {SuccessResult(cc, x) : x \in ArgMin(cc, F)}

\* What the script's linprog call returns for each vector of depot supplies
\* (b_depot = depot_supply), tabulated once (@@ yields an explicit function).
SolveTable ==
  [s \in SupplyVectors |-> linprog(c, A_store, b_store, A_depot, s)] @@ <<>>

\* What a solver whose answer is not taken on trust may return: any failure
\* status, or success with a vector that meets the bounds and the depot equalities
\* but not necessarily the store inequalities.
UntrustedResults(cc, A_eq, b_eq) ==
  {FailureResult(st) : st \in 1..4} \cup {SuccessResult(cc, x) : x \in EqCandidates(A_eq, b_eq)}

UntrustedTable ==
  [s \in SupplyVectors |-> UntrustedResults(c, A_depot, s)] @@ <<>>

\* ------------------------------------------------------------ script state

VARIABLES
  pc,            \* where the script run stands
  depot_supply,  \* [d1_supply, d2_supply, d3_supply] of the current run
  res,           \* the OptimizeResult of the current run
  display,       \* what the current run has written to the page, in order
  calls,         \* linprog calls made by the current run
  memo           \* history: input and page of one earlier finished run

vars == <<pc, depot_supply, res, display, calls, memo>>

\* No linprog call has returned yet in this run.
NoResult == [status |-> -1, success |-> FALSE, message |-> ""]

total_supply(supply) == SumOver(supply, Depots)

\* Variant of total_demand: three times the largest capacity.
total_demand_ThriceMax ==
  3 * (CHOOSE m \in {store_caps[j] : j \in Stores} : \A j \in Stores : store_caps[j] <= m)

total_demand == SumOver(store_caps, Stores)

\* Variant of the error trap's condition: >= in place of >.
OversupplyOrEqual(supply) == total_supply(supply) >= total_demand

\* The error trap's condition (line 90).
Oversupply(supply) == total_supply(supply) > total_demand

\* st.error of the error trap (lines 91-95).
OversupplyError(supply) ==
  [kind |-> "error",
   text |-> "The total number of TVs available from depots exceeds the total store demand.",
   total_supply |-> total_supply(supply),
   total_demand |-> total_demand]

\* np.round of one entry n / Den: to the nearest integer, a tie to the even one.
Round(n) ==
  LET q == n \div Den
      r == n % Den
  IN IF 2 * r < Den THEN q
     ELSE IF 2 * r > Den THEN q + 1
     ELSE IF q % 2 = 0 THEN q ELSE q + 1

\* Variant of the reshape: column by column.
ReshapeColumnMajor(x) == [i \in Depots |-> [j \in Stores |-> Round(x[3 * j + i])]]

\* np.round(res.x).astype(int).reshape(3, 3): row i holds entries 3*i .. 3*i+2.
Reshape(x) == [i \in Depots |-> [j \in Stores |-> Round(x[3 * i + j])]]

\* The success branch (lines 155-165): the shipment table, then the total cost.
SuccessPage(r) ==
  <<[kind |-> "table", x |-> Reshape(r.x)], [kind |-> "total_cost", value |-> r.fun]>>

\* Variant of the else branch: the solver's message left out.
FailurePageNoMessage(r) ==
  <<[kind |-> "error", text |-> "Optimization failed"]>>

\* The else branch (line 167).
FailurePage(r) ==
  <<[kind |-> "error", text |-> "Optimization failed: " \o r.message]>>

\* Lines 154-167.
ResultPage(r) == IF r.success THEN SuccessPage(r) ELSE FailurePage(r)

Init ==
  /\ pc = "Idle"
  /\ depot_supply = [i \in Depots |-> 0]
  /\ res = NoResult
  /\ display = <<>>
  /\ calls = 0
  /\ memo = <<>>

\* Variant of Submit: the page of the previous run is not cleared.
SubmitKeepPage(s) ==
  /\ pc \in {"Idle", "Stopped", "Done"}
  /\ pc' = "Submitted"
  /\ depot_supply' = s
  /\ res' = NoResult
  /\ display' = display
  /\ calls' = 0
  /\ UNCHANGED memo

\* The form is submitted with supplies s: the script runs again from the top,
\* on an empty page.
Submit(s) ==
  /\ pc \in {"Idle", "Stopped", "Done"}
  /\ pc' = "Submitted"
  /\ depot_supply' = s
  /\ res' = NoResult
  /\ display' = <<>>
  /\ calls' = 0
  /\ UNCHANGED memo

\* Lines 90-96: st.error and st.stop() on oversupply; otherwise the arrays are built.
ErrorTrap ==
  /\ pc = "Submitted"
  /\ IF Oversupply(depot_supply)
     THEN /\ display' = display \o <<OversupplyError(depot_supply)>>
          /\ pc' = "Stopped"
     ELSE /\ display' = display
          /\ pc' = "Built"
  /\ UNCHANGED <<depot_supply, res, calls, memo>>

\* Line 142: linprog is called.
CallSolver ==
  /\ pc = "Built"
  /\ pc' = "Solving"
  /\ calls' = calls + 1
  /\ UNCHANGED <<depot_supply, res, display, memo>>

\* linprog returns res.
SolverReturns ==
  /\ pc = "Solving"
  /\ res' \in SolveTable[depot_supply]
  /\ pc' = "Solved"
  /\ UNCHANGED <<depot_supply, display, calls, memo>>

\* linprog returns res, the solver not being taken on trust.
UntrustedSolverReturns ==
  /\ pc = "Solving"
  /\ res' \in UntrustedTable[depot_supply]
  /\ pc' = "Solved"
  /\ UNCHANGED <<depot_supply, display, calls, memo>>

\* Variant of the result branch: a failed solve is tried again.
ShowResultRetry ==
  /\ pc = "Solved"
  /\ IF res.success
     THEN /\ display' = display \o ResultPage(res)
          /\ pc' = "Done"
     ELSE /\ display' = display
          /\ pc' = "Built"
  /\ UNCHANGED <<depot_supply, res, calls, memo>>

\* Lines 152-167: the result is written to the page and the run ends.
ShowResult ==
  /\ pc = "Solved"
  /\ display' = display \o ResultPage(res)
  /\ pc' = "Done"
  /\ UNCHANGED <<depot_supply, res, calls, memo>>

\* Submit, with the history variable taking the input and the page of the run
\* that has just ended, to be compared with those of later runs.
SubmitRemembering(s) ==
  /\ pc \in {"Stopped", "Done"}
  /\ memo' = <<[input |-> depot_supply, page |-> display]>>
  /\ memo' # memo
  /\ pc' = "Submitted"
  /\ depot_supply' = s
  /\ res' = NoResult
  /\ display' = <<>>
  /\ calls' = 0

Next ==
  \/ \E s \in SupplyVectors : Submit(s)
  \/ ErrorTrap
  \/ CallSolver
  \/ SolverReturns
  \/ ShowResult
  \/ \E s \in SupplyVectors : SubmitRemembering(s)

\* The script with linprog as documented.
Spec == Init /\ [][Next]_vars

NextDefensive ==
  \/ \E s \in SupplyVectors : Submit(s)
  \/ ErrorTrap
  \/ CallSolver
  \/ UntrustedSolverReturns
  \/ ShowResult

\* The script with a solver whose answer is not taken on trust.  The script is
\* straight-line synchronous code: a run that has started goes on to its end.
\* Nothing makes the user submit again.
SpecDefensive ==
  /\ Init
  /\ [][NextDefensive]_vars
  /\ WF_vars(ErrorTrap \/ CallSolver \/ UntrustedSolverReturns \/ ShowResult)

\* ------------------------------------------------------------------ claims

\* The run ended by showing a shipment table and a total cost.
ReportedSuccess ==
  pc = "Done" /\ Len(display) = 2 /\ display[1].kind = "table" /\ display[2].kind = "total_cost"

\* The run ended by showing one error and nothing else.
ReportedError == Len(display) = 1 /\ display[1].kind = "error"

ShownPlan == display[1].x

ShownCost == display[2].value

RowTotal(p, i) == SumOver(p[i], Stores)

ColTotal(p, j) == SumOver([i \in Depots |-> p[i][j]], Depots)

\* sum over (depot i, store j) of shipment(i,j) x distance[i][j] x cost multiplier
PlanCost(p) ==
  SumOver([i \in Depots |->
             SumOver([j \in Stores |-> p[i][j] * distances[i][j] * cost_per_mile], Stores)],
          Depots)

\* A 3x3 plan of non-negative whole quantities that ships every depot's supply
\* exactly and keeps every store within its capacity.
ValidPlan(p, supply) ==
  /\ DOMAIN p = Depots
  /\ \A i \in Depots : DOMAIN p[i] = Stores
  /\ \A i \in Depots : \A j \in Stores : p[i][j] \in Nat
  /\ \A i \in Depots : RowTotal(p, i) = supply[i]
  /\ \A j \in Stores : ColTotal(p, j) <= store_caps[j]

\* The ways one depot can split its supply over the stores.
RowSplits(n) == {r \in [Stores -> GridUpTo(n)] : SumOver(r, Stores) = n}

\* Every valid plan for the supplies, stated on the depot x store matrix.
ValidPlans(supply) ==
  {p \in {[i \in Depots |-> IF i = 0 THEN r0 ELSE IF i = 1 THEN r1 ELSE r2] :
            r0 \in RowSplits(supply[0]), r1 \in RowSplits(supply[1]), r2 \in RowSplits(supply[2])} :
     ValidPlan(p, supply)}

\* The valid plans' costs, per supply vector.
ValidCosts ==
  [s \in SupplyVectors |-> {PlanCost(p) : p \in ValidPlans(s)}] @@ <<>>

\* C1: a solve that ends in success reports a 3x3 plan of integers >= 0 in which
\* every depot's row sums exactly to its supply and every store's column sums to at
\* most its capacity.
C1_PlanShipsSupplyWithinCapacity ==
  ReportedSuccess => ValidPlan(ShownPlan, depot_supply)

\* C1 witness: a reported plan for supplies that use up the whole capacity, each depot shipping.
C1_Witness ==
  /\ ReportedSuccess
  /\ total_supply(depot_supply) = total_demand
  /\ \A i \in Depots : depot_supply[i] > 0
  /\ \A j \in Stores : ColTotal(ShownPlan, j) = store_caps[j]

\* C2: on success no valid plan costs less than the plan that is reported.
C2_PlanCostMinimal ==
  ReportedSuccess => \A v \in ValidCosts[depot_supply] : PlanCost(ShownPlan) <= v

\* C2 witness: a reported plan, with a valid plan that costs strictly more.
C2_Witness ==
  /\ ReportedSuccess
  /\ \E v \in ValidCosts[depot_supply] : PlanCost(ShownPlan) < v

\* C3: the error trap fires exactly when total supply is strictly greater than
\* total capacity; then an error is shown, linprog is never called and no plan or
\* cost is shown; otherwise (equality included) the run goes on and calls linprog.
C3_TrapExactlyOnOversupply ==
  /\ pc = "Stopped" =>
       /\ total_supply(depot_supply) > total_demand
       /\ calls = 0
       /\ res = NoResult
       /\ ReportedError
       /\ display[1] = OversupplyError(depot_supply)
  /\ pc \in {"Built", "Solving", "Solved", "Done"} =>
       total_supply(depot_supply) <= total_demand
  /\ pc \in {"Solving", "Solved", "Done"} => calls = 1

\* C3 witness: supplies exactly equal to the capacity were accepted and solved.
C3_Witness ==
  /\ pc = "Done"
  /\ total_supply(depot_supply) = total_demand
  /\ calls = 1

\* C7: on success the total cost shown (the solver's objective value, a real
\* number) equals the cost of the rounded plan that is shown.
C7_CostMatchesShownPlan ==
  ReportedSuccess => ShownCost = Den * PlanCost(ShownPlan)

\* C7 witness: a reported plan with a positive cost.
C7_Witness ==
  ReportedSuccess /\ ShownCost > 0 /\ depot_supply[2] > 0

\* C8: a finished run with the same depot supplies as an earlier finished run
\* shows the same page (plan and cost, or error), whatever ran in between.
C8_SameInputSamePage ==
  (pc \in {"Stopped", "Done"} /\ memo # <<>> /\ memo[1].input = depot_supply)
    => memo[1].page = display

\* C8 witness: the supplies of a remembered successful run have been solved again.
C8_Witness ==
  /\ ReportedSuccess
  /\ memo # <<>>
  /\ memo[1].input = depot_supply
  /\ Len(memo[1].page) = 2
  /\ total_supply(depot_supply) > 0

\* C9: when a depot's supply is 0 and the request is accepted, the solve succeeds
\* and every entry of that depot's row in the plan is 0.
C9_ZeroSupplyZeroRow ==
  (pc = "Done" /\ \E i \in Depots : depot_supply[i] = 0)
    => /\ ReportedSuccess
       /\ \A i \in Depots :
            depot_supply[i] = 0 => \A j \in Stores : ShownPlan[i][j] = 0

\* C9 witness: a reported plan for supplies of which exactly one is 0.
C9_Witness ==
  /\ ReportedSuccess
  /\ depot_supply[1] = 0
  /\ depot_supply[0] > 0
  /\ depot_supply[2] > 0

\* C10: once the error trap has let the supplies through, linprog reports neither
\* infeasibility nor unboundedness: the solve succeeds.
C10_AcceptedIsSolved ==
  pc \in {"Solved", "Done"} =>
    /\ res.status \notin {2, 3}
    /\ res.success

\* C10 witness: supplies equal in total to the capacity but split differently
\* from the store capacities are solved.
C10_Witness ==
  /\ pc = "Solved"
  /\ res.success
  /\ total_supply(depot_supply) = total_demand
  /\ \A i \in Depots : depot_supply[i] # store_caps[i]

\* The state of the solve invocation, read off the script's position and res.
Outcome(status) ==
  CASE status = 0 -> "Succeeded"
    [] status = 2 -> "Infeasible"
    [] status = 3 -> "Unbounded"
    [] OTHER -> "SolverError"

SolveState ==
  CASE pc = "Built" -> "Built"
    [] pc = "Solving" -> "Solving"
    [] pc \in {"Solved", "Done"} -> Outcome(res.status)
    [] OTHER -> "NoSolve"

SolverOutcomes == {"Succeeded", "Infeasible", "Unbounded", "SolverError"}

AllowedMoves ==
  {<<"Built", "Solving">>}
    \cup {<<"Solving", t>> : t \in SolverOutcomes}
    \cup {<<"Succeeded", "Validated">>, <<"Succeeded", "RoundingInfeasible">>}

\* C4 (as claimed): a plan is shown as a success only if no store's total in the
\* rounded plan exceeds its capacity; otherwise the run ends in a validation failure.
C4_ShownPlanWithinCapacity ==
  ReportedSuccess => \A j \in Stores : ColTotal(ShownPlan, j) <= store_caps[j]

\* C5: a solve invocation moves only Built -> Solving -> {Succeeded, Infeasible,
\* Unbounded, SolverError} (and Succeeded -> {Validated, RoundingInfeasible}); it
\* starts at Built, is left only by a new request, calls linprog at most once, and
\* a failed solve shows one error and no plan; and every invocation ends, in one
\* of the four outcomes.
C5_SolveMoves ==
  /\ [][/\ (SolveState' # SolveState /\ SolveState # "NoSolve" /\ SolveState' # "NoSolve")
             => <<SolveState, SolveState'>> \in AllowedMoves
        /\ (SolveState = "NoSolve" /\ SolveState' # "NoSolve") => SolveState' = "Built"
        /\ SolveState \in {"Built", "Solving"} => SolveState' # "NoSolve"
        /\ calls' <= 1
        /\ (SolveState' \in SolverOutcomes) => calls' = 1
        /\ pc' = "Done" =>
             /\ SolveState' \in SolverOutcomes
             /\ ~res'.success => (Len(display') = 1 /\ display'[1].kind = "error")
       ]_vars
  /\ (pc = "Built") ~> (pc = "Done" /\ SolveState \in SolverOutcomes)

\* C5 witness: a solve that failed as infeasible has ended, one error shown, after one call.
C5_Witness ==
  /\ pc = "Done"
  /\ SolveState = "Infeasible"
  /\ ReportedError
  /\ calls = 1

====
